---- MODULE Spec2Model ----
(***************************************************************************)
(* Streaming generation of chipi-backend: one stream request of            *)
(* api.stream_response.  Three activities run concurrently:                *)
(*   - the generation thread  Bot.generate_stream.run_generate  (bot.py),  *)
(*   - the worker process     api.worker_process, which relays the         *)
(*     fragments of the thread's stream_queue to the manager's             *)
(*     output_queue,                                                       *)
(*   - the consumer           api.stream_response.event_generator.         *)
(* The environment can kill the worker process and can disconnect the      *)
(* client.  The conversation store is the two tables of db.py.             *)
(*                                                                         *)
(* Text is a sequence of symbols; NL is the newline character.             *)
(***************************************************************************)
EXTENDS Integers, Sequences, FiniteSets, TLC

\* ------------------------------------------------------------------ bounds
\* longest token sequence the engine returns in the model
MaxTokens == 2
\* longest token sequence given to the content splitter on its own
MaxSplitLen == 6
\* stream requests one server run dispatches, one after the other
MaxStreams == 2

\* ---------------------------------------------------------------- constants
\* the end-of-reasoning marker token, bot.py:174
EndThink == 151668
\* title prefix length of db.add_message / db.create_conversation
TitleLen == 100
\* db.update_conversation_title: longest title, and the prefix kept
TitleMax == 255
TitleCut == 252

NL == "\n"
\* the two-character escape sequence written "\\n" in the source
EscNL == <<"\\", "n">>

\* token ids the engine can return
Tokens == {1, EndThink}

\* tokenizer.decode of one token id
DecodeToken(t) == IF t = 1 THEN <<NL, "a", NL>> ELSE <<"</think>">>

RECURSIVE Decode(_)
\* tokenizer.decode(ids, skip_special_tokens=True)
Decode(ids) ==
    IF ids = <<>> THEN <<>> ELSE DecodeToken(Head(ids)) \o Decode(Tail(ids))

RECURSIVE LStrip(_)
LStrip(s) == IF s # <<>> /\ Head(s) = NL THEN LStrip(Tail(s)) ELSE s

RECURSIVE RStrip(_)
RStrip(s) ==
    IF s # <<>> /\ s[Len(s)] = NL THEN RStrip(SubSeq(s, 1, Len(s) - 1)) ELSE s

\* str.strip("\n")
Strip(s) == RStrip(LStrip(s))

RECURSIVE ReverseIndex(_, _)
\* response_ids[::-1].index(tok): distance of the last occurrence of tok
\* from the end, or -1 for ValueError
ReverseIndex(ids, tok) ==
    IF ids = <<>> THEN -1
    ELSE IF ids[Len(ids)] = tok THEN 0
    ELSE LET r == ReverseIndex(SubSeq(ids, 1, Len(ids) - 1), tok)
         IN  IF r = -1 THEN -1 ELSE r + 1

\* variant: the first occurrence of the marker governs the split
SplitIndexFirst(ids) ==
    IF \E i \in 1..Len(ids) : ids[i] = EndThink
    THEN CHOOSE i \in 1..Len(ids) :
            /\ ids[i] = EndThink
            /\ \A j \in 1..(i - 1) : ids[j] # EndThink
    ELSE 0

\* bot.py 173-176
SplitIndex(ids) ==
    LET r == ReverseIndex(ids, EndThink)
    IN  IF r = -1 THEN 0 ELSE Len(ids) - r

\* bot.py 178-180
ThinkingContent(ids) == Strip(Decode(SubSeq(ids, 1, SplitIndex(ids))))

\* bot.py 182-184
Content(ids) == Strip(Decode(SubSeq(ids, SplitIndex(ids) + 1, Len(ids))))

RECURSIVE Replace(_)
\* token.replace("\n", "\\n")
Replace(s) ==
    IF s = <<>> THEN <<>>
    ELSE (IF Head(s) = NL THEN EscNL ELSE <<Head(s)>>) \o Replace(Tail(s))

\* bot.py 201-202: f"data: {text}\n\n"
Frame(token) == <<"data: ">> \o Replace(token) \o <<NL, NL>>

\* api.py 106: f"data: ERROR: {str(e)}\n\n"
ErrorFrame(msg) == <<"data: ERROR: ">> \o msg \o <<NL, NL>>

\* api.py 271: f"{chunk}\\n\\n\n\n"
Response(chunk) == chunk \o EscNL \o EscNL \o <<NL, NL>>

\* queue items: a text, or the sentinel None
Item(v) == [isNone |-> FALSE, val |-> v]
None == [isNone |-> TRUE, val |-> <<>>]

\* the request of the stream endpoint
SessionId == "s1"
Prompt == <<"p">>
\* str(e) of the exception of a failed load_model
LoadError == <<"load", NL, "failed">>

\* ---------------------------------------------------------------- the store
\* content[:100] + "..." if len(content) > 100 else content   (db.py 165)
TitleOf(content) ==
    IF Len(content) > TitleLen
    THEN SubSeq(content, 1, TitleLen) \o <<".", ".", ".">>
    ELSE content

Message(sid, role, content, reasoning) ==
    [session_id |-> sid, role |-> role, content |-> content,
     reasoning |-> reasoning]

\* rows of conversation_details of one session
CountOf(dets, sid) ==
    Cardinality({i \in 1..Len(dets) : dets[i].session_id = sid})

\* variant: conversation_details has no foreign key to conversations
AddMessageNoForeignKey(convs, dets, sid, role, content, reasoning) ==
    [ok |-> TRUE,
     conversations |-> convs,
     details |-> Append(dets, Message(sid, role, content, reasoning))]

\* ConversationDB.add_message: the INSERT violates the foreign key when the
\* conversation does not exist (rollback, False); the first row of a
\* conversation, when it is a user row, sets the title.
AddMessage(convs, dets, sid, role, content, reasoning) ==
    IF sid \notin DOMAIN convs
    THEN [ok |-> FALSE, conversations |-> convs, details |-> dets]
    ELSE LET d2 == Append(dets, Message(sid, role, content, reasoning))
             c2 == IF role = "user" /\ CountOf(d2, sid) = 1
                   THEN [convs EXCEPT ![sid] = TitleOf(content)]
                   ELSE convs
         IN  [ok |-> TRUE, conversations |-> c2, details |-> d2]

\* variant: a prompt of exactly TitleLen characters is cut as well
CreateConversationCutAtLimit(convs, sid, initial_prompt) ==
    LET p == IF initial_prompt = <<>> THEN <<"New Conversation">>
             ELSE initial_prompt
        title == IF Len(p) >= TitleLen
                 THEN SubSeq(p, 1, TitleLen) \o <<".", ".", ".">>
                 ELSE p
    IN  [s \in DOMAIN convs \cup {sid} |->
            IF s = sid THEN title ELSE convs[s]]

\* ConversationDB.create_conversation with the uuid4 it drew
CreateConversation(convs, sid, initial_prompt) ==
    LET p == IF initial_prompt = <<>> THEN <<"New Conversation">>
             ELSE initial_prompt
        title == IF Len(p) > TitleLen
                 THEN SubSeq(p, 1, TitleLen) \o <<".", ".", ".">>
                 ELSE p
    IN  [s \in DOMAIN convs \cup {sid} |->
            IF s = sid THEN title ELSE convs[s]]

\* variant: update_conversation_title stores the title as given
UpdateConversationTitleUncut(convs, sid, title) ==
    IF sid \in DOMAIN convs
    THEN [ok |-> TRUE, conversations |-> [convs EXCEPT ![sid] = title]]
    ELSE [ok |-> FALSE, conversations |-> convs]

\* ConversationDB.update_conversation_title: True when a row was updated
UpdateConversationTitle(convs, sid, title) ==
    LET t == IF Len(title) > TitleMax
             THEN SubSeq(title, 1, TitleCut) \o <<".", ".", ".">>
             ELSE title
    IN  IF sid \in DOMAIN convs
        THEN [ok |-> TRUE, conversations |-> [convs EXCEPT ![sid] = t]]
        ELSE [ok |-> FALSE, conversations |-> convs]

\* ConversationDB.delete_conversation: the DELETE cascades to the rows of
\* conversation_details (db.py 47); True when a conversation was deleted
DeleteConversationDb(convs, dets, sid) ==
    IF sid \in DOMAIN convs
    THEN [ok |-> TRUE,
          conversations |-> [s \in DOMAIN convs \ {sid} |-> convs[s]],
          details |-> SelectSeq(dets, LAMBDA m : m.session_id # sid)]
    ELSE [ok |-> FALSE, conversations |-> convs, details |-> dets]

\* ConversationDB.get_conversation: None for a missing conversation
GetConversationDb(convs, dets, sid) ==
    IF sid \in DOMAIN convs
    THEN [none |-> FALSE, title |-> convs[sid],
          messages |-> SelectSeq(dets, LAMBDA m : m.session_id = sid)]
    ELSE [none |-> TRUE, title |-> <<>>, messages |-> <<>>]

\* ---------------------------------------------------------------- the state
VARIABLES
    conversations,  \* table conversations: session_id -> title
    details,        \* table conversation_details, in insertion order
    details0,       \* conversation_details when the request arrived
    conversations0, \* conversations when the request arrived
    wstate,         \* worker process p: running, exited, killed, terminated
    wpc,            \* position of worker_process
    chunk,          \* worker_process: the chunk generate_stream yielded
    gpc,            \* position of the thread run_generate
    response_ids,   \* tokens the engine has generated
    stream_queue,   \* queue.Queue between the thread and generate_stream
    streamEnded,    \* the streamer has put None on stream_queue
    output_queue,   \* manager.Queue between worker and consumer
    emitted,        \* every item worker_process has put on output_queue
    loadFailed,     \* bot.load_model raised
    cpc,            \* position of event_generator
    yielded,        \* every frame event_generator has yielded
    gotSentinel,    \* event_generator has read None
    clientGone,     \* the client has disconnected
    cancelled,      \* the generator was closed at its yield
    managerDown,    \* manager.shutdown() has run
    messages,       \* worker's bot.messages, the list handed to the engine
    history,        \* worker's bot.history
    loads,          \* number of bot.load_model() calls so far
    writeFailed,    \* an add_message of the request returned False
    response,       \* the last HTTP response of the server
    streams,        \* number of workers stream_response has started
    split,          \* the content splitter applied to a token sequence
    call,           \* the last ConversationDB operation and its result
    explicit,       \* conversations whose title a client has set
    bot,            \* the bot of the server process (api.py 83)
    units           \* the workers of concurrent requests, by session id

vars == <<conversations, details, details0, conversations0, wstate, wpc,
          chunk, gpc, response_ids, stream_queue, streamEnded, output_queue,
          emitted, loadFailed, cpc, yielded, gotSentinel, clientGone,
          cancelled, managerDown, messages, history, loads, writeFailed,
          response, streams, split, call, explicit, bot, units>>

storeVars == <<conversations, details, details0, conversations0>>
workerVars == <<wstate, wpc, chunk, output_queue, emitted, loadFailed>>
genVars == <<gpc, response_ids, stream_queue, streamEnded>>
consumerVars == <<cpc, yielded, gotSentinel, cancelled, managerDown>>
botVars == <<messages, history, loads, writeFailed>>
serverVars == <<response, streams, split>>
dbVars == <<call, explicit>>
poolVars == <<bot, units>>
auxVars == <<call, explicit, bot, units>>

\* bot.model and bot.tokenizer of the server process (api.py 83): Bot() is
\* constructed unloaded and the server process never calls load_model; a
\* worker starts with a copy of the server's bot
ParentModel == FALSE

\* bot.history of the server process (bot.py 30): never appended to there
ParentHistory == <<>>

\* an entry of bot.messages / bot.history
ChatMessage(role, content) == [role |-> role, content |-> content]

\* no request answered yet
NoResponse == [endpoint |-> "", sid |-> "", role |-> "", status |-> 0]

\* no ConversationDB operation has run
NoCall == [op |-> "", sid |-> "", role |-> "", text |-> <<>>,
           failed |-> FALSE, ok |-> FALSE]

\* Bot.__init__ (bot.py 27-36) as far as a request touches it; session_id is
\* not set before a worker sets it
ParentBot == [session_id |-> "", user_input |-> <<>>, messages |-> <<>>]

\* no concurrent request has been dispatched
NoUnits == [s \in {} |-> ParentBot]

\* no store operation traced, no concurrent request
AuxIdle ==
    /\ call = NoCall
    /\ explicit = {}
    /\ bot = ParentBot
    /\ units = NoUnits

\* the splitter has not run
SplitIdle == [ids |-> <<>>, done |-> FALSE, index |-> 0,
              thinking |-> <<>>, content |-> <<>>]

\* an empty table
NoConversations == [s \in {} |-> <<>>]

\* the stores a stream request can find: stream_response does not look the
\* session up, so the conversation may be missing; an existing one may
\* already hold messages
InitStores ==
    { <<NoConversations, <<>>>>,
      <<[s \in {SessionId} |-> <<"New Conversation">>], <<>>>>,
      <<[s \in {SessionId} |-> <<"h">>],
        <<Message(SessionId, "user", <<"h">>, <<>>),
          Message(SessionId, "assistant", <<"i">>, <<>>)>> >> }

\* state after stream_response has started p (api.py 243-252)
Init ==
    /\ \E st \in InitStores :
          /\ conversations = st[1]
          /\ details = st[2]
          /\ conversations0 = st[1]
          /\ details0 = st[2]
    /\ wstate = "running"
    /\ wpc = "load"
    /\ chunk = <<>>
    /\ gpc = "idle"
    /\ response_ids = <<>>
    /\ stream_queue = <<>>
    /\ streamEnded = FALSE
    /\ output_queue = <<>>
    /\ emitted = <<>>
    /\ loadFailed = FALSE
    /\ cpc = "check_alive"
    /\ yielded = <<>>
    /\ gotSentinel = FALSE
    /\ clientGone = FALSE
    /\ cancelled = FALSE
    /\ managerDown = FALSE
    /\ messages = <<>>
    /\ history = ParentHistory
    /\ loads = 0
    /\ writeFailed = FALSE
    /\ response = NoResponse
    /\ streams = 1
    /\ split = SplitIdle
    /\ AuxIdle

Alive == wstate = "running"

\* output_queue.put(item)
Put(item) ==
    /\ output_queue' = Append(output_queue, item)
    /\ emitted' = Append(emitted, item)

\* ------------------------------------------------------- worker_process
\* api.py 91-96: load the model, set the session and the prompt
WorkerLoad ==
    /\ Alive /\ wpc = "load"
    /\ \E ok \in (IF ParentModel THEN {TRUE} ELSE BOOLEAN) :
          /\ loadFailed' = ~ok
          /\ wpc' = IF ok THEN "start" ELSE "except"
          /\ messages' = IF ok
                         THEN history \o <<ChatMessage("user", Prompt)>>
                         ELSE messages
    /\ loads' = IF ParentModel THEN loads ELSE loads + 1
    /\ UNCHANGED <<wstate, chunk, output_queue, emitted>>
    /\ UNCHANGED <<storeVars, genVars, consumerVars, clientGone>>
    /\ UNCHANGED <<history, writeFailed>>
    /\ UNCHANGED serverVars
    /\ UNCHANGED auxVars

\* variant: the user turn is stored before generation starts
WorkerStartThreadPersistFirst ==
    /\ Alive /\ wpc = "start"
    /\ gpc' = "generate"
    /\ wpc' = "relay"
    /\ LET r == AddMessage(conversations, details, SessionId, "user",
                           Prompt, <<>>)
       IN  /\ conversations' = r.conversations
           /\ details' = r.details
           /\ writeFailed' = (writeFailed \/ ~r.ok)
    /\ UNCHANGED <<details0, conversations0>>
    /\ UNCHANGED <<wstate, chunk, output_queue, emitted, loadFailed>>
    /\ UNCHANGED <<response_ids, stream_queue, streamEnded>>
    /\ UNCHANGED <<consumerVars, clientGone>>
    /\ UNCHANGED <<messages, history, loads>>
    /\ UNCHANGED serverVars
    /\ UNCHANGED auxVars

\* bot.py 138-195: generate_stream up to t.start()
WorkerStartThread ==
    /\ Alive /\ wpc = "start"
    /\ gpc' = "generate"
    /\ wpc' = "relay"
    /\ UNCHANGED <<wstate, chunk, output_queue, emitted, loadFailed>>
    /\ UNCHANGED <<response_ids, stream_queue, streamEnded>>
    /\ UNCHANGED <<storeVars, consumerVars, clientGone>>
    /\ UNCHANGED botVars
    /\ UNCHANGED serverVars
    /\ UNCHANGED auxVars

\* bot.py 198-202: q.get() blocks while stream_queue is empty
WorkerRelayGet ==
    /\ Alive /\ wpc = "relay"
    /\ stream_queue # <<>>
    /\ stream_queue' = Tail(stream_queue)
    /\ IF Head(stream_queue).isNone
       THEN /\ wpc' = "sentinel"
            /\ chunk' = chunk
       ELSE /\ wpc' = "put"
            /\ chunk' = Frame(Head(stream_queue).val)
    /\ UNCHANGED <<wstate, output_queue, emitted, loadFailed>>
    /\ UNCHANGED <<gpc, response_ids, streamEnded>>
    /\ UNCHANGED <<storeVars, consumerVars, clientGone>>
    /\ UNCHANGED botVars
    /\ UNCHANGED serverVars
    /\ UNCHANGED auxVars

\* api.py 103
WorkerPutChunk ==
    /\ Alive /\ wpc = "put"
    /\ Put(Item(chunk))
    /\ wpc' = "relay"
    /\ UNCHANGED <<wstate, chunk, loadFailed>>
    /\ UNCHANGED <<storeVars, genVars, consumerVars, clientGone>>
    /\ UNCHANGED botVars
    /\ UNCHANGED serverVars
    /\ UNCHANGED auxVars

\* variant: the normal path forgets the sentinel
WorkerPutSentinelSkipped ==
    /\ Alive /\ wpc = "sentinel"
    /\ wpc' = "shutdown"
    /\ UNCHANGED <<wstate, chunk, output_queue, emitted, loadFailed>>
    /\ UNCHANGED <<storeVars, genVars, consumerVars, clientGone>>
    /\ UNCHANGED botVars
    /\ UNCHANGED serverVars
    /\ UNCHANGED auxVars

\* api.py 104
WorkerPutSentinel ==
    /\ Alive /\ wpc = "sentinel"
    /\ Put(None)
    /\ wpc' = "shutdown"
    /\ UNCHANGED <<wstate, chunk, loadFailed>>
    /\ UNCHANGED <<storeVars, genVars, consumerVars, clientGone>>
    /\ UNCHANGED botVars
    /\ UNCHANGED serverVars
    /\ UNCHANGED auxVars

\* variant: the handler puts the sentinel only
WorkerExceptErrorSkipped ==
    /\ Alive /\ wpc = "except"
    /\ wpc' = "except_sentinel"
    /\ UNCHANGED <<wstate, chunk, output_queue, emitted, loadFailed>>
    /\ UNCHANGED <<storeVars, genVars, consumerVars, clientGone>>
    /\ UNCHANGED botVars
    /\ UNCHANGED serverVars
    /\ UNCHANGED auxVars

\* api.py 105-106
WorkerExceptError ==
    /\ Alive /\ wpc = "except"
    /\ Put(Item(ErrorFrame(LoadError)))
    /\ wpc' = "except_sentinel"
    /\ UNCHANGED <<wstate, chunk, loadFailed>>
    /\ UNCHANGED <<storeVars, genVars, consumerVars, clientGone>>
    /\ UNCHANGED botVars
    /\ UNCHANGED serverVars
    /\ UNCHANGED auxVars

\* api.py 107-108
WorkerExceptSentinel ==
    /\ Alive /\ wpc = "except_sentinel"
    /\ Put(None)
    /\ wpc' = "shutdown"
    /\ UNCHANGED <<wstate, chunk, loadFailed>>
    /\ UNCHANGED <<storeVars, genVars, consumerVars, clientGone>>
    /\ UNCHANGED botVars
    /\ UNCHANGED serverVars
    /\ UNCHANGED auxVars

\* the process ends once worker_process has returned or raised and the
\* non-daemon thread t, if started, has finished
WorkerExit ==
    /\ Alive /\ wpc = "shutdown"
    /\ gpc \in {"idle", "done", "raised"}
    /\ wstate' = "exited"
    /\ UNCHANGED <<wpc, chunk, output_queue, emitted, loadFailed>>
    /\ UNCHANGED <<storeVars, genVars, consumerVars, clientGone>>
    /\ UNCHANGED botVars
    /\ UNCHANGED serverVars
    /\ UNCHANGED auxVars

\* ------------------------------------------- the thread run_generate
\* bot.py 159-163: model.generate produces one more token and the
\* streamer hands its text to on_finalized_text (bot.py 20-21)
GenToken ==
    /\ Alive /\ gpc = "generate"
    /\ Len(response_ids) < MaxTokens
    /\ \E t \in Tokens :
          /\ response_ids' = Append(response_ids, t)
          /\ stream_queue' = Append(stream_queue, Item(DecodeToken(t)))
    /\ UNCHANGED <<gpc, streamEnded>>
    /\ UNCHANGED <<storeVars, workerVars, consumerVars, clientGone>>
    /\ UNCHANGED botVars
    /\ UNCHANGED serverVars
    /\ UNCHANGED auxVars

\* bot.py 21 with stream_end=True: the streamer flushes its last text
GenEndText ==
    /\ Alive /\ gpc = "generate"
    /\ stream_queue' = Append(stream_queue, Item(<<>>))
    /\ gpc' = "end_none"
    /\ UNCHANGED <<response_ids, streamEnded>>
    /\ UNCHANGED <<storeVars, workerVars, consumerVars, clientGone>>
    /\ UNCHANGED botVars
    /\ UNCHANGED serverVars
    /\ UNCHANGED auxVars

\* variant: on_finalized_text ignores stream_end
GenEndNoneMissing ==
    /\ Alive /\ gpc = "end_none"
    /\ gpc' = "returning"
    /\ UNCHANGED <<response_ids, stream_queue, streamEnded>>
    /\ UNCHANGED <<storeVars, workerVars, consumerVars, clientGone>>
    /\ UNCHANGED botVars
    /\ UNCHANGED serverVars
    /\ UNCHANGED auxVars

\* bot.py 22-23
GenEndNone ==
    /\ Alive /\ gpc = "end_none"
    /\ stream_queue' = Append(stream_queue, None)
    /\ streamEnded' = TRUE
    /\ gpc' = "returning"
    /\ UNCHANGED response_ids
    /\ UNCHANGED <<storeVars, workerVars, consumerVars, clientGone>>
    /\ UNCHANGED botVars
    /\ UNCHANGED serverVars
    /\ UNCHANGED auxVars

\* bot.py 159-167: model.generate returns the complete token sequence
GenReturn ==
    /\ Alive /\ gpc = "returning"
    /\ gpc' = "persist_user"
    /\ history' = Append(history, ChatMessage("user", Prompt))
    /\ UNCHANGED <<response_ids, stream_queue, streamEnded>>
    /\ UNCHANGED <<storeVars, workerVars, consumerVars, clientGone>>
    /\ UNCHANGED <<messages, loads, writeFailed>>
    /\ UNCHANGED serverVars
    /\ UNCHANGED auxVars

\* bot.py 150-163: the engine call raises; the exception ends the thread
GenRaise ==
    /\ Alive /\ gpc = "generate"
    /\ gpc' = "raised"
    /\ UNCHANGED <<response_ids, stream_queue, streamEnded>>
    /\ UNCHANGED <<storeVars, workerVars, consumerVars, clientGone>>
    /\ UNCHANGED botVars
    /\ UNCHANGED serverVars
    /\ UNCHANGED auxVars

\* bot.py 159-163: the engine call stalls and never returns
GenStall ==
    /\ Alive /\ gpc = "generate"
    /\ gpc' = "stalled"
    /\ UNCHANGED <<response_ids, stream_queue, streamEnded>>
    /\ UNCHANGED <<storeVars, workerVars, consumerVars, clientGone>>
    /\ UNCHANGED botVars
    /\ UNCHANGED serverVars
    /\ UNCHANGED auxVars

\* bot.py 170-171
PersistUser ==
    /\ Alive /\ gpc = "persist_user"
    /\ LET r == AddMessage(conversations, details, SessionId, "user",
                           Prompt, <<>>)
       IN  /\ conversations' = r.conversations
           /\ details' = r.details
           /\ writeFailed' = (writeFailed \/ ~r.ok)
    /\ gpc' = "persist_assistant"
    /\ UNCHANGED <<details0, conversations0>>
    /\ UNCHANGED <<response_ids, stream_queue, streamEnded>>
    /\ UNCHANGED <<workerVars, consumerVars, clientGone>>
    /\ UNCHANGED <<messages, history, loads>>
    /\ UNCHANGED serverVars
    /\ UNCHANGED auxVars

\* bot.py 173-192
PersistAssistant ==
    /\ Alive /\ gpc = "persist_assistant"
    /\ \E index \in {SplitIndex(response_ids)} :
       \E thinking_content \in
                {Strip(Decode(SubSeq(response_ids, 1, index)))},
          content \in
                {Strip(Decode(SubSeq(response_ids, index + 1,
                                     Len(response_ids))))} :
          /\ \E r \in {AddMessage(conversations, details, SessionId,
                                   "assistant", content, thinking_content)} :
                /\ conversations' = r.conversations
                /\ details' = r.details
                /\ writeFailed' = (writeFailed \/ ~r.ok)
          /\ history' = Append(history, ChatMessage("assistant", content))
    /\ gpc' = "done"
    /\ UNCHANGED <<details0, conversations0>>
    /\ UNCHANGED <<response_ids, stream_queue, streamEnded>>
    /\ UNCHANGED <<workerVars, consumerVars, clientGone>>
    /\ UNCHANGED <<messages, loads>>
    /\ UNCHANGED serverVars
    /\ UNCHANGED auxVars

\* ------------------------------------------------------- the environment
\* the worker process is killed from outside (SIGKILL, out of memory)
Kill ==
    /\ Alive
    /\ wstate' = "killed"
    /\ UNCHANGED <<wpc, chunk, output_queue, emitted, loadFailed>>
    /\ UNCHANGED <<storeVars, genVars, consumerVars, clientGone>>
    /\ UNCHANGED botVars
    /\ UNCHANGED serverVars
    /\ UNCHANGED auxVars

\* the client closes the connection
ClientDisconnect ==
    /\ ~clientGone /\ cpc \notin {"idle", "done"}
    /\ clientGone' = TRUE
    /\ UNCHANGED <<storeVars, workerVars, genVars, consumerVars>>
    /\ UNCHANGED botVars
    /\ UNCHANGED serverVars
    /\ UNCHANGED auxVars

\* ------------------------------------------------------- event_generator
\* variant: the loop leaves as soon as the producer is dead
ChannelEmptyAlways(q) == TRUE

\* output_queue.empty()
ChannelEmpty(q) == q = <<>>

\* variant: the loop does not look at the producer's liveness
ConsumerCheckAliveBlind ==
    /\ cpc = "check_alive"
    /\ cpc' = "get"
    /\ UNCHANGED <<yielded, gotSentinel, cancelled, managerDown>>
    /\ UNCHANGED <<storeVars, workerVars, genVars, clientGone>>
    /\ UNCHANGED botVars
    /\ UNCHANGED serverVars
    /\ UNCHANGED auxVars

\* api.py 264, left operand: not p.is_alive()
ConsumerCheckAlive ==
    /\ cpc = "check_alive"
    /\ cpc' = IF Alive THEN "get" ELSE "check_empty"
    /\ UNCHANGED <<yielded, gotSentinel, cancelled, managerDown>>
    /\ UNCHANGED <<storeVars, workerVars, genVars, clientGone>>
    /\ UNCHANGED botVars
    /\ UNCHANGED serverVars
    /\ UNCHANGED auxVars

\* api.py 264-265, right operand: output_queue.empty(), then break
ConsumerCheckEmpty ==
    /\ cpc = "check_empty"
    /\ cpc' = IF ChannelEmpty(output_queue) THEN "join" ELSE "get"
    /\ UNCHANGED <<yielded, gotSentinel, cancelled, managerDown>>
    /\ UNCHANGED <<storeVars, workerVars, genVars, clientGone>>
    /\ UNCHANGED botVars
    /\ UNCHANGED serverVars
    /\ UNCHANGED auxVars

\* api.py 268-272: get returns an item; None breaks, a chunk is yielded
ConsumerGet ==
    /\ cpc = "get"
    /\ output_queue # <<>>
    /\ output_queue' = Tail(output_queue)
    /\ IF Head(output_queue).isNone
       THEN /\ gotSentinel' = TRUE
            /\ cpc' = "join"
            /\ UNCHANGED yielded
       ELSE /\ yielded' = Append(yielded, Response(Head(output_queue).val))
            /\ cpc' = "yield"
            /\ UNCHANGED gotSentinel
    /\ UNCHANGED <<cancelled, managerDown>>
    /\ UNCHANGED <<wstate, wpc, chunk, emitted, loadFailed>>
    /\ UNCHANGED <<storeVars, genVars, clientGone>>
    /\ UNCHANGED botVars
    /\ UNCHANGED serverVars
    /\ UNCHANGED auxVars

\* api.py 268, 273-274: get times out with queue.Empty, continue
ConsumerGetTimeout ==
    /\ cpc = "get"
    /\ output_queue = <<>>
    /\ cpc' = "check_alive"
    /\ UNCHANGED <<yielded, gotSentinel, cancelled, managerDown>>
    /\ UNCHANGED <<storeVars, workerVars, genVars, clientGone>>
    /\ UNCHANGED botVars
    /\ UNCHANGED serverVars
    /\ UNCHANGED auxVars

\* api.py 272: the response takes the frame and resumes the generator
ConsumerResume ==
    /\ cpc = "yield"
    /\ cpc' = "check_alive"
    /\ UNCHANGED <<yielded, gotSentinel, cancelled, managerDown>>
    /\ UNCHANGED <<storeVars, workerVars, genVars, clientGone>>
    /\ UNCHANGED botVars
    /\ UNCHANGED serverVars
    /\ UNCHANGED auxVars

\* api.py 272, 277: after a disconnect the generator is closed where it is
\* suspended, at its yield; the poll loop itself never suspends
ConsumerClose ==
    /\ cpc = "yield"
    /\ clientGone
    /\ cancelled' = TRUE
    /\ cpc' = "finally"
    /\ UNCHANGED <<yielded, gotSentinel, managerDown>>
    /\ UNCHANGED <<storeVars, workerVars, genVars, clientGone>>
    /\ UNCHANGED botVars
    /\ UNCHANGED serverVars
    /\ UNCHANGED auxVars

\* variant: the generator does not wait for the worker before closing
ConsumerJoinNoWait ==
    /\ cpc = "join"
    /\ cpc' = "finally"
    /\ UNCHANGED <<yielded, gotSentinel, cancelled, managerDown>>
    /\ UNCHANGED <<storeVars, workerVars, genVars, clientGone>>
    /\ UNCHANGED botVars
    /\ UNCHANGED serverVars
    /\ UNCHANGED auxVars

\* api.py 276: p.join() returns once the worker process has ended
ConsumerJoin ==
    /\ cpc = "join"
    /\ ~Alive
    /\ cpc' = "finally"
    /\ UNCHANGED <<yielded, gotSentinel, cancelled, managerDown>>
    /\ UNCHANGED <<storeVars, workerVars, genVars, clientGone>>
    /\ UNCHANGED botVars
    /\ UNCHANGED serverVars
    /\ UNCHANGED auxVars

\* variant: the finally block does not terminate the worker
ConsumerFinallyNoTerminate ==
    /\ cpc = "finally"
    /\ managerDown' = TRUE
    /\ cpc' = "done"
    /\ UNCHANGED <<yielded, gotSentinel, cancelled>>
    /\ UNCHANGED <<storeVars, workerVars, genVars, clientGone>>
    /\ UNCHANGED botVars
    /\ UNCHANGED serverVars
    /\ UNCHANGED auxVars

\* api.py 277-280: p.terminate() if alive, manager.shutdown()
ConsumerFinally ==
    /\ cpc = "finally"
    /\ wstate' = IF Alive THEN "terminated" ELSE wstate
    /\ managerDown' = TRUE
    /\ cpc' = "done"
    /\ UNCHANGED <<yielded, gotSentinel, cancelled>>
    /\ UNCHANGED <<wpc, chunk, output_queue, emitted, loadFailed>>
    /\ UNCHANGED <<storeVars, genVars, clientGone>>
    /\ UNCHANGED botVars
    /\ UNCHANGED serverVars
    /\ UNCHANGED auxVars

\* ------------------------------------------------------- specifications
Worker ==
    \/ WorkerLoad
    \/ WorkerStartThread
    \/ WorkerRelayGet
    \/ WorkerPutChunk
    \/ WorkerPutSentinel
    \/ WorkerExceptError
    \/ WorkerExceptSentinel
    \/ WorkerExit

Generation ==
    \/ GenToken
    \/ GenEndText
    \/ GenEndNone
    \/ GenReturn
    \/ PersistUser
    \/ PersistAssistant

Consumer ==
    \/ ConsumerCheckAlive
    \/ ConsumerCheckEmpty
    \/ ConsumerGet
    \/ ConsumerGetTimeout
    \/ ConsumerResume
    \/ ConsumerClose
    \/ ConsumerJoin
    \/ ConsumerFinally

Next ==
    \/ Worker
    \/ Generation
    \/ GenRaise
    \/ GenStall
    \/ Kill
    \/ ClientDisconnect
    \/ Consumer

Spec == Init /\ [][Next]_vars

\* The scheduler runs every process that can take a step: the worker
\* process, its thread and the event loop driving the generator.  Nothing
\* obliges the engine to fail or stall, the environment to kill the worker
\* or the client to disconnect.
Fairness ==
    /\ WF_vars(Worker)
    /\ WF_vars(Generation)
    /\ WF_vars(Consumer)

FairSpec == Init /\ [][Next]_vars /\ Fairness

\* ---------------------------------------------------- the content splitter
\* no stream request has been made: no worker, no generator
Idle ==
    /\ wstate = "none"
    /\ wpc = "load"
    /\ chunk = <<>>
    /\ gpc = "idle"
    /\ response_ids = <<>>
    /\ stream_queue = <<>>
    /\ streamEnded = FALSE
    /\ output_queue = <<>>
    /\ emitted = <<>>
    /\ loadFailed = FALSE
    /\ cpc = "idle"
    /\ yielded = <<>>
    /\ gotSentinel = FALSE
    /\ clientGone = FALSE
    /\ cancelled = FALSE
    /\ managerDown = FALSE
    /\ messages = <<>>
    /\ history = ParentHistory
    /\ loads = 0
    /\ writeFailed = FALSE
    /\ response = NoResponse
    /\ streams = 0
    /\ AuxIdle

\* the token sequences of at most n tokens
TokenSeqs(n) == UNION {[1..k -> Tokens] : k \in 0..n}

\* a raw token sequence response_ids, not yet split
SplitInit ==
    /\ conversations = NoConversations
    /\ details = <<>>
    /\ conversations0 = NoConversations
    /\ details0 = <<>>
    /\ Idle
    /\ \E ids \in TokenSeqs(MaxSplitLen) :
          split = [SplitIdle EXCEPT !.ids = ids]

\* bot.py 173-184 (and 114-127): index, thinking_content, content
SplitRun ==
    /\ ~split.done
    /\ split' = [ids |-> split.ids,
                 done |-> TRUE,
                 index |-> SplitIndex(split.ids),
                 thinking |-> ThinkingContent(split.ids),
                 content |-> Content(split.ids)]
    /\ UNCHANGED <<storeVars, workerVars, genVars, consumerVars, clientGone>>
    /\ UNCHANGED botVars
    /\ UNCHANGED <<response, streams>>
    /\ UNCHANGED auxVars

SplitNext == SplitRun

SplitSpec == SplitInit /\ [][SplitNext]_vars

\* ------------------------------------------------------ the HTTP handlers
\* session ids requests carry: two that uuid.UUID accepts, one it rejects
ValidIds == {"s1", "s2"}
BadId == "not-a-uuid"
Ids == ValidIds \cup {BadId}

\* uuid.UUID(session_id) does not raise ValueError
IsUuid(sid) == sid \in ValidIds

\* api.py 218
Roles == {"user", "assistant", "system"}

Resp(endpoint, sid, role, status) ==
    [endpoint |-> endpoint, sid |-> sid, role |-> role, status |-> status]

\* the stores a server can hold when a request arrives
ServerStores ==
    InitStores \cup
    { <<[s \in ValidIds |-> <<"h">>],
        <<Message("s1", "user", <<"h">>, <<>>),
          Message("s2", "user", <<"h">>, <<>>),
          Message("s1", "assistant", <<"i">>, <<>>)>> >> }

\* a running server that has dispatched no stream request yet
ServerInit ==
    /\ \E st \in ServerStores :
          /\ conversations = st[1]
          /\ details = st[2]
          /\ conversations0 = st[1]
          /\ details0 = st[2]
    /\ Idle
    /\ split = SplitIdle

\* what the handlers other than stream_response leave alone
HandlerFrame ==
    /\ UNCHANGED <<details0, conversations0>>
    /\ UNCHANGED <<workerVars, genVars, consumerVars, clientGone>>
    /\ UNCHANGED botVars
    /\ UNCHANGED <<streams, split>>
    /\ UNCHANGED auxVars

\* api.py 126-135: POST /api/conversations/new
NewConversation ==
    /\ \E title \in {<<>>, <<"t">>}, sid \in ValidIds \ DOMAIN conversations :
          /\ conversations' =
                CreateConversation(conversations, sid,
                    IF title = <<>> THEN <<"New Conversation">> ELSE title)
          /\ response' = Resp("new", sid, "", 200)
    /\ UNCHANGED details
    /\ HandlerFrame

\* api.py 138-156: GET /api/conversations/{session_id}; unpacking the None
\* that db.get_conversation returns for a missing conversation raises
\* TypeError, which the last except clause turns into 500
GetConversation ==
    /\ \E sid \in Ids :
          response' =
             Resp("get", sid, "",
                  IF ~IsUuid(sid) THEN 400
                  ELSE IF GetConversationDb(conversations, details, sid).none
                       THEN 500
                       ELSE 200)
    /\ UNCHANGED <<conversations, details>>
    /\ HandlerFrame

\* api.py 159-181: PATCH /api/conversations/{session_id}/title
UpdateTitle ==
    /\ \E sid \in Ids, title \in {<<"u">>} :
          IF ~IsUuid(sid)
          THEN /\ response' = Resp("title", sid, "", 400)
               /\ UNCHANGED conversations
          ELSE LET r == UpdateConversationTitle(conversations, sid, title)
               IN  /\ conversations' = r.conversations
                   /\ response' =
                         Resp("title", sid, "", IF r.ok THEN 200 ELSE 404)
    /\ UNCHANGED details
    /\ HandlerFrame

\* api.py 184-205: DELETE /api/conversations/{session_id}
DeleteConversation ==
    /\ \E sid \in Ids :
          IF ~IsUuid(sid)
          THEN /\ response' = Resp("delete", sid, "", 400)
               /\ UNCHANGED <<conversations, details>>
          ELSE LET r == DeleteConversationDb(conversations, details, sid)
               IN  /\ conversations' = r.conversations
                   /\ details' = r.details
                   /\ response' =
                         Resp("delete", sid, "", IF r.ok THEN 200 ELSE 404)
    /\ HandlerFrame

\* api.py 208-229: POST /api/conversations/{session_id}/message; the call
\* app.state.db.add_message(session_id, role, content) lacks the required
\* argument reasoning of db.py 140-142 and raises TypeError, which the last
\* except clause turns into 500
AddMessageRequest ==
    /\ \E sid \in Ids, role \in Roles \cup {"tool"} :
          response' =
             Resp("message", sid, role,
                  IF ~IsUuid(sid) THEN 400
                  ELSE IF role \notin Roles THEN 400
                  ELSE 500)
    /\ UNCHANGED <<conversations, details>>
    /\ HandlerFrame

\* api.py 232-286: GET /api/conversations/{session_id}/stream.  The
\* HTTPException(400) of a malformed id is raised inside the try block whose
\* only handler is "except Exception", which answers 500.  For a well-formed
\* id the manager, the queue and the worker process are created; the store
\* is not consulted.  The worker starts with a copy of the server's bot.
\* Requests are dispatched one after the other, for one session.
StreamResponse ==
    \E sid \in {SessionId, BadId} :
       IF ~IsUuid(sid)
       THEN /\ response' = Resp("stream", sid, "", 500)
            /\ UNCHANGED <<conversations, details>>
            /\ HandlerFrame
       ELSE /\ wstate = "none" \/ cpc = "done"
            /\ streams < MaxStreams
            /\ response' = Resp("stream", sid, "", 200)
            /\ streams' = streams + 1
            /\ conversations0' = conversations
            /\ details0' = details
            /\ wstate' = "running"
            /\ wpc' = "load"
            /\ chunk' = <<>>
            /\ gpc' = "idle"
            /\ response_ids' = <<>>
            /\ stream_queue' = <<>>
            /\ streamEnded' = FALSE
            /\ output_queue' = <<>>
            /\ emitted' = <<>>
            /\ loadFailed' = FALSE
            /\ cpc' = "check_alive"
            /\ yielded' = <<>>
            /\ gotSentinel' = FALSE
            /\ clientGone' = FALSE
            /\ cancelled' = FALSE
            /\ managerDown' = FALSE
            /\ messages' = <<>>
            /\ history' = ParentHistory
            /\ writeFailed' = FALSE
            /\ UNCHANGED <<conversations, details, loads, split>>
            /\ UNCHANGED auxVars

ApiNext ==
    \/ NewConversation
    \/ GetConversation
    \/ UpdateTitle
    \/ DeleteConversation
    \/ AddMessageRequest
    \/ StreamResponse

\* the request handlers of the server process
ApiSpec == ServerInit /\ [][ApiNext]_vars

\* db.py 231-245: the DELETE of a delete request served meanwhile commits
ConversationDeleted ==
    /\ \E sid \in DOMAIN conversations :
          LET r == DeleteConversationDb(conversations, details, sid)
          IN  /\ conversations' = r.conversations
              /\ details' = r.details
    /\ UNCHANGED response
    /\ HandlerFrame

\* the first stream request of the server
FirstStreamResponse == streams = 0 /\ StreamResponse

SessionNext ==
    \/ FirstStreamResponse
    \/ ConversationDeleted
    \/ Worker
    \/ Generation
    \/ ClientDisconnect
    \/ Consumer

\* one stream request, with conversations deleted meanwhile
SessionSpec == ServerInit /\ [][SessionNext]_vars

\* event_generator of a request whose client stays connected
ConsumerAttended ==
    \/ ConsumerCheckAlive
    \/ ConsumerCheckEmpty
    \/ ConsumerGet
    \/ ConsumerGetTimeout
    \/ ConsumerResume
    \/ ConsumerJoin
    \/ ConsumerFinally

RepeatNext ==
    \/ StreamResponse
    \/ Worker
    \/ Generation
    \/ ConsumerAttended

\* a running server whose store holds no message yet
RepeatInit == ServerInit /\ details = <<>>

\* stream requests of one session, one after the other, each read to its end
RepeatSpec == RepeatInit /\ [][RepeatNext]_vars

\* ----------------------------------------------- ConversationDB operations
\* the most rows the traced operations insert
MaxRows == 3

\* a text of n characters
Text(n) == [i \in 1..n |-> <<"a", "b", "c">>[(i % 3) + 1]]

\* lengths of the initial prompts, titles and message contents clients send:
\* around the limits of db.py 98-99, 121-122 and 165
PromptLens == {0, 1, TitleLen, TitleLen + 1, TitleMax + 1}
TitleLens == {1, TitleMax, TitleMax + 1}
ContentLens == {1, TitleLen + 1}

\* the statement of add_message that raises psycopg2.Error, if any
FailPoints == {"none", "insert", "count", "update", "commit"}

\* ConversationDB.add_message (db.py 140-173) with a failing statement.
\*  - the INSERT fails (also on the foreign key), or the SELECT COUNT of a
\*    user message fails: rollback, False.
\*  - the first message is a user message: update_conversation_title runs
\*    on the same connection.  When its UPDATE succeeds it commits the
\*    INSERT with it (db.py 133).  When its UPDATE fails it rolls the
\*    transaction back, the INSERT included, and returns False (db.py
\*    135-138); add_message ignores that result (db.py 166), commits the
\*    empty transaction and returns True (db.py 168-169).
\*  - the commit of add_message fails: rollback, False; after a nested
\*    update_conversation_title nothing is left to roll back.
AddMessageFailing(convs, dets, sid, role, content, reasoning, fail) ==
    IF sid \notin DOMAIN convs \/ fail = "insert"
    THEN [ok |-> FALSE, failed |-> TRUE,
          conversations |-> convs, details |-> dets]
    ELSE IF role = "user" /\ fail = "count"
    THEN [ok |-> FALSE, failed |-> TRUE,
          conversations |-> convs, details |-> dets]
    ELSE
      \* bound as a value: TLC evaluates LET by name
      CHOOSE res \in
        {LET d2 == Append(dets, Message(sid, role, content, reasoning))
             first == role = "user" /\ CountOf(d2, sid) = 1
             u == UpdateConversationTitle(convs, sid, TitleOf(content))
         IN  IF first /\ fail = "update"
             THEN [ok |-> TRUE, failed |-> TRUE,
                   conversations |-> convs, details |-> dets]
             ELSE IF first
             THEN [ok |-> fail # "commit", failed |-> fail = "commit",
                   conversations |-> u.conversations, details |-> d2]
             ELSE IF fail = "commit"
             THEN [ok |-> FALSE, failed |-> TRUE,
                   conversations |-> convs, details |-> dets]
             ELSE [ok |-> TRUE, failed |-> FALSE,
                   conversations |-> convs, details |-> d2]} : TRUE

\* the session the traced operations work on
DbIds == {SessionId}

\* what the ConversationDB operations leave alone
DbFrame ==
    /\ UNCHANGED <<details0, conversations0>>
    /\ UNCHANGED <<workerVars, genVars, consumerVars, clientGone>>
    /\ UNCHANGED botVars
    /\ UNCHANGED serverVars
    /\ UNCHANGED poolVars

\* db.py 92-117 called as api.py 129-132 does: a title the client gave is
\* the initial prompt, none is "New Conversation"
DbCreateConversation ==
    /\ \E sid \in DbIds \ DOMAIN conversations, n \in PromptLens :
          /\ conversations' = CreateConversation(conversations, sid, Text(n))
          /\ call' = [op |-> "create", sid |-> sid, role |-> "",
                      text |-> Text(n), failed |-> FALSE, ok |-> TRUE]
          /\ explicit' = IF n > 0 THEN explicit \cup {sid} ELSE explicit
    /\ UNCHANGED details
    /\ DbFrame

\* db.py 119-138 called as api.py 170 does
DbUpdateTitle ==
    /\ \E sid \in DbIds, n \in TitleLens :
          \E r \in {UpdateConversationTitle(conversations, sid, Text(n))} :
             /\ conversations' = r.conversations
             /\ call' = [op |-> "title", sid |-> sid, role |-> "",
                         text |-> Text(n), failed |-> FALSE, ok |-> r.ok]
             /\ explicit' = IF r.ok THEN explicit \cup {sid} ELSE explicit
    /\ UNCHANGED details
    /\ DbFrame

\* db.py 140-173
DbAddMessage ==
    /\ Len(details) < MaxRows
    /\ \E sid \in DbIds, role \in Roles, n \in ContentLens,
          fail \in FailPoints :
          \E r \in {AddMessageFailing(conversations, details, sid, role,
                                      Text(n), <<>>, fail)} :
             /\ conversations' = r.conversations
             /\ details' = r.details
             /\ call' = [op |-> "message", sid |-> sid, role |-> role,
                         text |-> Text(n), failed |-> r.failed, ok |-> r.ok]
    /\ UNCHANGED explicit
    /\ DbFrame

\* an empty store, no request
DbInit ==
    /\ conversations = NoConversations
    /\ details = <<>>
    /\ conversations0 = NoConversations
    /\ details0 = <<>>
    /\ Idle
    /\ split = SplitIdle

DbNext ==
    \/ DbCreateConversation
    \/ DbUpdateTitle
    \/ DbAddMessage

\* sequences of ConversationDB operations on one connection
DbSpec == DbInit /\ [][DbNext]_vars

\* ---------------------------------------------------- concurrent requests
\* the most fragments the engine of one worker generates
MaxFragments == 2

\* the prompt of the stream request of each session
PromptOf(sid) == IF sid = SessionId THEN Prompt ELSE <<"q">>

\* what the engine generates for the messages handed to it
Answer(msgs) == <<"re">> \o msgs[Len(msgs)].content

\* the worker of a request: its position, its copy of the module-level bot,
\* the manager.Queue of the request and what event_generator has yielded
Unit(b) ==
    [pc |-> "set", bot |-> b, generated |-> 0,
     output_queue |-> <<>>, yielded |-> <<>>]

\* some other worker has not finished
OthersRunning(sid) ==
    \E o \in DOMAIN units \ {sid} : units[o].pc # "done"

\* what the concurrent requests leave alone
PoolFrame ==
    /\ UNCHANGED <<details0, conversations0>>
    /\ UNCHANGED <<workerVars, genVars, consumerVars, clientGone>>
    /\ UNCHANGED botVars
    /\ UNCHANGED serverVars
    /\ UNCHANGED dbVars

\* api.py 242-252: a manager, a queue and a process per request; the
\* process starts with a copy of the memory of the server process
PoolStreamResponse(sid) ==
    /\ sid \notin DOMAIN units
    /\ units' = [u \in DOMAIN units \cup {sid} |->
                    IF u = sid THEN Unit(bot) ELSE units[u]]
    /\ UNCHANGED <<bot, conversations, details>>
    /\ PoolFrame

\* variant: the workers are threads of the server process and share its bot
UnitSetSessionShared(sid) ==
    /\ sid \in DOMAIN units /\ units[sid].pc = "set"
    /\ \E b \in {[session_id |-> sid,
                  user_input |-> PromptOf(sid),
                  messages |-> ParentHistory \o
                               <<ChatMessage("user", PromptOf(sid))>>]} :
          /\ units' = [u \in DOMAIN units |->
                          [units[u] EXCEPT
                              !.bot = b,
                              !.pc = IF u = sid THEN "generate" ELSE @]]
          /\ bot' = b
    /\ UNCHANGED <<conversations, details>>
    /\ PoolFrame

\* api.py 94-96 and bot.py 73-75, in the worker's own memory
UnitSetSession(sid) ==
    /\ sid \in DOMAIN units /\ units[sid].pc = "set"
    /\ units' = [units EXCEPT
                    ![sid].bot =
                        [session_id |-> sid,
                         user_input |-> PromptOf(sid),
                         messages |-> ParentHistory \o
                                      <<ChatMessage("user", PromptOf(sid))>>],
                    ![sid].pc = "generate"]
    /\ UNCHANGED <<bot, conversations, details>>
    /\ PoolFrame

\* bot.py 150-163 and api.py 102-103: a fragment generated from the
\* worker's bot.messages reaches the request's queue
UnitGenerate(sid) ==
    /\ sid \in DOMAIN units /\ units[sid].pc = "generate"
    /\ units[sid].generated < MaxFragments
    /\ units' = [units EXCEPT
                    ![sid].output_queue =
                        Append(@, Frame(Answer(units[sid].bot.messages))),
                    ![sid].generated = @ + 1]
    /\ UNCHANGED <<bot, conversations, details>>
    /\ PoolFrame

\* bot.py 165: the engine returns
UnitReturn(sid) ==
    /\ sid \in DOMAIN units /\ units[sid].pc = "generate"
    /\ units' = [units EXCEPT ![sid].pc = "persist_user"]
    /\ UNCHANGED <<bot, conversations, details>>
    /\ PoolFrame

\* The workers write through bot.db, the connection the server process
\* opened at import (api.py 83, bot.py 36, db.py 11) and every forked worker
\* inherits.  Workers using that one connection at the same time is
\* undefined for the client library: a write of add_message takes effect
\* as sent or is lost.
UnitWrite(sid, role, content) ==
    \E lost \in (IF OthersRunning(sid) THEN BOOLEAN ELSE {FALSE}) :
       \E r \in {AddMessage(conversations, details, units[sid].bot.session_id,
                            role, content, <<>>)} :
          /\ conversations' = IF lost THEN conversations ELSE r.conversations
          /\ details' = IF lost THEN details ELSE r.details

\* bot.py 170-171
UnitPersistUser(sid) ==
    /\ sid \in DOMAIN units /\ units[sid].pc = "persist_user"
    /\ UnitWrite(sid, "user", units[sid].bot.user_input)
    /\ units' = [units EXCEPT ![sid].pc = "persist_assistant"]
    /\ UNCHANGED bot
    /\ PoolFrame

\* bot.py 186-192
UnitPersistAssistant(sid) ==
    /\ sid \in DOMAIN units /\ units[sid].pc = "persist_assistant"
    /\ UnitWrite(sid, "assistant", Answer(units[sid].bot.messages))
    /\ units' = [units EXCEPT ![sid].pc = "done"]
    /\ UNCHANGED bot
    /\ PoolFrame

\* api.py 261-271: the event_generator of the request reads its own queue
UnitYield(sid) ==
    /\ sid \in DOMAIN units /\ units[sid].output_queue # <<>>
    /\ units' = [units EXCEPT
                    ![sid].yielded =
                        Append(@, Response(Head(units[sid].output_queue))),
                    ![sid].output_queue = Tail(@)]
    /\ UNCHANGED <<bot, conversations, details>>
    /\ PoolFrame

\* a running server whose store holds the conversations of both sessions
PoolInit ==
    /\ \E st \in ServerStores :
          /\ ValidIds \subseteq DOMAIN st[1]
          /\ conversations = st[1]
          /\ details = st[2]
          /\ conversations0 = st[1]
          /\ details0 = st[2]
    /\ Idle
    /\ split = SplitIdle

PoolNext ==
    \E sid \in ValidIds :
       \/ PoolStreamResponse(sid)
       \/ UnitSetSession(sid)
       \/ UnitGenerate(sid)
       \/ UnitReturn(sid)
       \/ UnitPersistUser(sid)
       \/ UnitPersistAssistant(sid)
       \/ UnitYield(sid)

\* stream requests of different sessions served at the same time
PoolSpec == PoolInit /\ [][PoolNext]_vars

\* ------------------------------------------------------------ properties
WorkerStopped == wstate # "running"

\* the worker has put a sentinel
SentinelPut == \E i \in 1..Len(emitted) : emitted[i].isNone

RECURSIVE BeforeSentinel(_)
\* the items of a sequence that precede its first sentinel
BeforeSentinel(q) ==
    IF q = <<>> \/ Head(q).isNone THEN <<>>
    ELSE <<Head(q)>> \o BeforeSentinel(Tail(q))

\* the frames event_generator yields for a sequence of fragments
Frames(q) == [i \in 1..Len(q) |-> Response(q[i].val)]

IsPrefix(a, b) == Len(a) <= Len(b) /\ a = SubSeq(b, 1, Len(a))

ConsumerExited == cpc \in {"join", "finally", "done"}

\* the rows the store has gained since the request arrived
NewRows == SubSeq(details, Len(details0) + 1, Len(details))
UserStored == \E i \in 1..Len(NewRows) : NewRows[i].role = "user"
AssistantStored == \E i \in 1..Len(NewRows) : NewRows[i].role = "assistant"
StoreUnchanged == details = details0 /\ conversations = conversations0

\* model.generate has returned the complete token sequence
GenerateReturned == gpc \in {"persist_user", "persist_assistant", "done"}

\* C1: the frames yielded are always a prefix of the frames of the fragments
\* the worker put before its sentinel; when the consumer loop of a request
\* that was not cancelled has exited they are all of them, in order; and the
\* loop never leaves on the producer-dead branch with an unread item in the
\* channel.
C1_FifoDelivery ==
    /\ IsPrefix(yielded, Frames(BeforeSentinel(emitted)))
    /\ (ConsumerExited /\ ~cancelled)
          => yielded = Frames(BeforeSentinel(emitted))
    /\ (ConsumerExited /\ ~cancelled /\ ~gotSentinel) => output_queue = <<>>

\* a whole stream of three distinct fragments was delivered, not cancelled
C1_Witness ==
    /\ cpc = "done" /\ ~cancelled /\ gotSentinel
    /\ Len(yielded) = 3
    /\ yielded[1] # yielded[2] /\ yielded[2] # yielded[3]

\* C2: a worker that ended on its own has put exactly one sentinel, as its
\* last item; the consumer yields a frame for no sentinel and yields nothing
\* once it has read the sentinel.
C2_SingleSentinel ==
    /\ [](wstate = "exited" =>
            /\ emitted # <<>>
            /\ emitted[Len(emitted)].isNone
            /\ Cardinality({i \in 1..Len(emitted) : emitted[i].isNone}) = 1)
    /\ [](Len(yielded) <= Len(BeforeSentinel(emitted)))
    /\ [][gotSentinel => yielded' = yielded]_vars

\* the worker ended normally after streaming and the consumer read the
\* sentinel
C2_Witness ==
    /\ wstate = "exited" /\ ~loadFailed
    /\ gotSentinel /\ cpc = "done"
    /\ Len(yielded) >= 2

\* C3: once the worker is dead and has put no sentinel, the consumer loop
\* terminates (FairSpec).
C3_DeadProducerTerminates ==
    (WorkerStopped /\ ~SentinelPut) ~> (cpc = "done")

\* the worker was killed mid-stream, the consumer drained the channel and
\* left on the producer-dead branch
C3_Witness ==
    /\ wstate = "killed" /\ ~SentinelPut
    /\ cpc = "done" /\ ~cancelled /\ ~gotSentinel
    /\ yielded # <<>>

\* an error fragment followed by the sentinel ends what the worker has put
ErrorThenSentinel ==
    /\ Len(emitted) >= 2
    /\ emitted[Len(emitted)].isNone
    /\ ~emitted[Len(emitted) - 1].isNone
    /\ Head(emitted[Len(emitted) - 1].val) = "data: ERROR: "

\* C4: when the engine's generate call raises in the generation thread, the
\* worker terminates and the event stream ends, and a worker that ends on
\* its own has put an error fragment and then the sentinel (FairSpec).
C4_GenerationErrorSurfaced ==
    (gpc = "raised") ~>
        /\ WorkerStopped
        /\ cpc = "done"
        /\ (wstate = "exited" => ErrorThenSentinel)

\* C5: after a failed load the worker puts the error fragment and then the
\* sentinel and nothing else, starts no generation, leaves the store alone,
\* and terminates (FairSpec).
C5_LoadFailure ==
    /\ [](loadFailed =>
            /\ IsPrefix(emitted, <<Item(ErrorFrame(LoadError)), None>>)
            /\ StoreUnchanged
            /\ gpc = "idle"
            /\ (wstate = "exited" =>
                   emitted = <<Item(ErrorFrame(LoadError)), None>>))
    /\ (loadFailed ~> WorkerStopped)

\* the load failed, the worker ended, the consumer saw the error frame
C5_Witness ==
    /\ loadFailed /\ wstate = "exited"
    /\ emitted = <<Item(ErrorFrame(LoadError)), None>>
    /\ yielded = <<Response(ErrorFrame(LoadError))>>
    /\ DOMAIN conversations # {}

\* C6: when the event stream has ended, the worker is not running and the
\* manager is shut down.
C6_NoOrphanWorker ==
    (cpc = "done") => (WorkerStopped /\ managerDown)

\* the generator was closed at its yield while the worker was running
C6_Witness ==
    /\ cpc = "done" /\ cancelled
    /\ wstate = "terminated" /\ managerDown

\* C7: after a client disconnect the worker is eventually terminated, here
\* in the execution the claim names: the engine call is stalled (FairSpec).
C7_DisconnectTerminatesWorker ==
    (clientGone /\ gpc = "stalled") ~> WorkerStopped

\* C8: when the worker is not running, the store holds both turns of the
\* request or neither.
C8_TurnAtomic ==
    WorkerStopped => (UserStored <=> AssistantStored)

\* C9: until model.generate has returned the store is as the request found
\* it, also when the worker has crashed or was terminated meanwhile.
C9_NoWriteBeforeGenerateReturns ==
    ~GenerateReturned => StoreUnchanged

\* the worker died after partial streaming, generation still in progress
C9_Witness ==
    /\ WorkerStopped /\ gpc = "generate"
    /\ response_ids # <<>> /\ yielded # <<>>
    /\ SessionId \in DOMAIN conversations
    /\ StoreUnchanged

\* C10 as stated: no message of the request is visible before the consumer
\* has read the sentinel from the output channel.
C10_VisibleAfterDelivery ==
    ~StoreUnchanged => gotSentinel

\* C10 amended: no message of the request is visible before the streamer
\* has put the end-of-stream sentinel on the worker's stream queue.
C10_VisibleAfterStreamEnd ==
    ~StoreUnchanged => streamEnded

\* both turns are stored while the consumer has not read the sentinel
C10_Witness ==
    /\ UserStored /\ AssistantStored
    /\ streamEnded /\ ~gotSentinel
    /\ cpc # "done"

\* the rows of one conversation as the role/content list of a chat
StoredHistory(dets, sid) ==
    LET rows == SelectSeq(dets, LAMBDA m : m.session_id = sid)
    IN  [i \in 1..Len(rows) |-> ChatMessage(rows[i].role, rows[i].content)]

\* an error fragment precedes the first sentinel the worker has put
ErrorBeforeSentinel ==
    \E i \in 1..Len(BeforeSentinel(emitted)) :
        /\ emitted[i].val # <<>>
        /\ Head(emitted[i].val) = "data: ERROR: "

\* C11: when the event stream of a request for an existing conversation has
\* closed after the sentinel, with no load failure and no killed worker, the
\* store holds the rows it held before followed by the user row (content =
\* prompt) and then the assistant row (content = answer segment, reasoning =
\* reasoning segment), and nothing else.
C11_TwoMessagesAtClosure ==
    (/\ cpc \in {"finally", "done"}
     /\ gotSentinel /\ ~cancelled /\ ~loadFailed
     /\ wstate # "killed"
     /\ SessionId \in DOMAIN conversations0)
    => details = details0 \o
          << Message(SessionId, "user", Prompt, <<>>),
             Message(SessionId, "assistant",
                     Strip(Decode(SubSeq(response_ids,
                                         SplitIndex(response_ids) + 1,
                                         Len(response_ids)))),
                     Strip(Decode(SubSeq(response_ids, 1,
                                         SplitIndex(response_ids))))) >>

\* the stream of a conversation with earlier messages closed normally and
\* the new assistant row carries a reasoning segment
C11_Witness ==
    /\ cpc = "done" /\ gotSentinel /\ wstate = "exited"
    /\ details0 # <<>>
    /\ Len(details) = Len(details0) + 2
    /\ details[Len(details)].role = "assistant"
    /\ details[Len(details)].reasoning # <<>>

\* a request has just been answered
Answered == response' # response

\* C12: a request to a session-scoped endpoint whose identifier is not
\* UUID-shaped is answered 400, and serving it changes neither the store nor
\* the worker (ApiSpec).
C12_MalformedIdRejected ==
    [][(Answered /\ ~IsUuid(response'.sid))
          => (/\ response'.status = 400
              /\ UNCHANGED <<conversations, details, wstate>>)]_vars

\* C13: a worker exists only for a stream request whose session id is
\* well-formed and named a conversation of the store when the request was
\* dispatched (SessionSpec).
C13_WorkerOnlyForKnownSession ==
    (wstate # "none") =>
        (/\ IsUuid(response.sid)
         /\ response.sid \in DOMAIN conversations0)

\* C14: a get-conversation request with a well-formed id that names no
\* conversation is answered 404 and leaves the store unchanged (ApiSpec).
C14_GetMissingIs404 ==
    [][(/\ Answered
        /\ response'.endpoint = "get"
        /\ IsUuid(response'.sid)
        /\ response'.sid \notin DOMAIN conversations)
          => (/\ response'.status = 404
              /\ UNCHANGED <<conversations, details>>)]_vars

\* C15: an add-message request with the id of an existing conversation and
\* a role in {user, assistant, system} is answered 200 and appends exactly
\* one row of that conversation and role to the store (ApiSpec).
C15_AddMessageAppends ==
    [][(/\ Answered
        /\ response'.endpoint = "message"
        /\ response'.sid \in DOMAIN conversations
        /\ response'.role \in Roles)
          => (/\ response'.status = 200
              /\ Len(details') = Len(details) + 1
              /\ SubSeq(details', 1, Len(details)) = details
              /\ details'[Len(details')].session_id = response'.sid
              /\ details'[Len(details')].role = response'.role)]_vars

\* every row of conversation_details names a conversation of the store
MessagesBelong ==
    \A i \in 1..Len(details) : details[i].session_id \in DOMAIN conversations

\* a step that removes conversations removes exactly their rows
DeleteRemovesOwnRows ==
    (/\ DOMAIN conversations' # DOMAIN conversations
     /\ DOMAIN conversations' \subseteq DOMAIN conversations)
    => details' = SelectSeq(details,
                     LAMBDA m : m.session_id \in DOMAIN conversations')

\* C16: every stored message belongs to a conversation of the store; a
\* delete removes the rows of the deleted conversation and no others, and a
\* worker whose conversation was deleted stores no row for it (SessionSpec).
C16_NoOrphanMessage ==
    /\ []MessagesBelong
    /\ [][DeleteRemovesOwnRows]_vars

\* the worker's writes failed because its conversation, which held rows, was
\* deleted before generation ended, while another conversation kept its row
C16_Witness ==
    /\ wstate = "exited" /\ gpc = "done" /\ writeFailed
    /\ SessionId \in DOMAIN conversations0
    /\ CountOf(details0, SessionId) > 0
    /\ SessionId \notin DOMAIN conversations
    /\ CountOf(details, SessionId) = 0
    /\ details # <<>>

\* C17: when a store write of the persistence step has failed and the worker
\* has ended, an error fragment was put on the output channel before the
\* sentinel.
C17_WriteFailureInBand ==
    (writeFailed /\ wstate = "exited") => ErrorBeforeSentinel

\* C18: over the stream requests of one server the engine load runs at most
\* once (RepeatSpec).
C18_LoadAtMostOnce == loads <= 1

\* C19: the list handed to the engine is the conversation's stored history
\* at request time followed by the new prompt.
C19_HistoryHandedToEngine ==
    (gpc # "idle") =>
        messages = StoredHistory(details0, SessionId)
                      \o <<ChatMessage("user", Prompt)>>

\* the positions of the end-of-reasoning marker in a token sequence
MarkerPositions(ids) == {i \in 1..Len(ids) : ids[i] = EndThink}

\* the position of the last marker, 0 without one
LastMarker(ids) ==
    IF MarkerPositions(ids) = {} THEN 0
    ELSE CHOOSE i \in MarkerPositions(ids) :
            \A j \in MarkerPositions(ids) : j <= i

\* C20: the splitter's index is the position right after the last marker
\* (0 without a marker); reasoning is decoded from the tokens up to the
\* index and the answer from the tokens after it, the answer tokens hold no
\* marker, and without a marker the reasoning is empty and the answer is the
\* whole sequence (SplitSpec).
C20_SplitAtLastMarker ==
    split.done =>
        LET ids == split.ids
            n == Len(ids)
            last == LastMarker(ids)
        IN  /\ split.index = last
            /\ split.thinking = Strip(Decode(SubSeq(ids, 1, last)))
            /\ split.content = Strip(Decode(SubSeq(ids, last + 1, n)))
            /\ SubSeq(ids, 1, split.index) \o SubSeq(ids, split.index + 1, n)
                  = ids
            /\ \A i \in (split.index + 1)..n : ids[i] # EndThink
            /\ (MarkerPositions(ids) = {} =>
                   /\ split.thinking = <<>>
                   /\ split.content = Strip(Decode(ids)))

\* a sequence with two markers was split, with tokens on both sides of the
\* last one
C20_Witness ==
    /\ split.done
    /\ Cardinality(MarkerPositions(split.ids)) >= 2
    /\ split.index < Len(split.ids)
    /\ split.ids[1] # EndThink
    /\ split.content # <<>>

\* the title create_conversation derives from a non-empty prompt
DerivedTitle(prompt) ==
    IF Len(prompt) <= TitleLen THEN prompt
    ELSE SubSeq(prompt, 1, TitleLen) \o <<".", ".", ".">>

\* C21: the title of a conversation just created is the initial prompt when
\* the prompt has at most 100 characters, and its first 100 characters
\* followed by "..." when it is longer (DbSpec).
C21_TitleFromPrompt ==
    (call.op = "create") =>
        conversations[call.sid] = DerivedTitle(call.text)

\* C21, amended: the same for a non-empty initial prompt; an empty or
\* missing prompt gives the title "New Conversation" (DbSpec).
C21_TitleFromNonEmptyPrompt ==
    (call.op = "create") =>
        /\ (call.text # <<>> =>
               conversations[call.sid] = DerivedTitle(call.text))
        /\ (Len(call.text) > TitleLen =>
               Len(conversations[call.sid]) = TitleLen + 3)
        /\ (call.text = <<>> =>
               conversations[call.sid] = <<"New Conversation">>)

\* a conversation was created with a prompt of 101 characters
C21_Witness ==
    /\ call.op = "create"
    /\ Len(call.text) = TitleLen + 1
    /\ Len(conversations[call.sid]) = TitleLen + 3
    /\ SubSeq(conversations[call.sid], 1, TitleLen)
          = SubSeq(call.text, 1, TitleLen)

\* C22: every stored conversation title has at most 255 characters (DbSpec).
C22_TitleBounded ==
    \A sid \in DOMAIN conversations : Len(conversations[sid]) <= TitleMax

\* a title of 256 characters was given to update_conversation_title of an
\* existing conversation, which stored 255 characters
C22_Witness ==
    /\ call.op = "title" /\ call.ok
    /\ Len(call.text) > TitleMax
    /\ Len(conversations[call.sid]) = TitleMax

\* the step inserts a user row into conversation_details
UserRowInserted ==
    /\ Len(details') = Len(details) + 1
    /\ details'[Len(details')].role = "user"

\* the conversation of the inserted row held no user row before
FirstUserMessage ==
    \A i \in 1..Len(details) :
        ~(/\ details[i].session_id = details'[Len(details')].session_id
          /\ details[i].role = "user")

\* C23: appending a user message sets the title to the truncated prefix of
\* the message exactly when it is the conversation's first user message,
\* whatever system or assistant messages precede it; a later user message
\* leaves the title unchanged (DbSpec).
C23_FirstUserMessageSetsTitle ==
    [][UserRowInserted =>
          IF FirstUserMessage
          THEN conversations'[details'[Len(details')].session_id]
                  = TitleOf(details'[Len(details')].content)
          ELSE conversations' = conversations]_vars

\* C24: a title a client has set, at creation or by
\* update_conversation_title, is unchanged when the first user message is
\* appended (DbSpec).
C24_ExplicitTitleKept ==
    [][(/\ UserRowInserted
        /\ FirstUserMessage
        /\ details'[Len(details')].session_id \in explicit)
          => conversations' = conversations]_vars

\* C27: add_message returns True only when its row is in the store
\* afterwards, and when one of its statements has failed it returns False
\* and the store is as before (DbSpec).
C27_TrueOnlyIfCommitted ==
    [][(call'.op = "message") =>
          /\ (call'.ok =>
                 details' = Append(details,
                                   Message(call'.sid, call'.role,
                                           call'.text, <<>>)))
          /\ (call'.failed =>
                 /\ ~call'.ok
                 /\ details' = details
                 /\ conversations' = conversations)]_vars

\* a frame: "data: " (an error frame: "data: ERROR: "), a payload without
\* a newline character, and the blank line
WellFramed(f) ==
    /\ Len(f) >= 3
    /\ f[1] \in {"data: ", "data: ERROR: "}
    /\ f[Len(f) - 1] = NL /\ f[Len(f)] = NL
    /\ \A i \in 2..(Len(f) - 2) : f[i] # NL

\* C25: every frame the worker has put on the output channel, data fragment
\* or error fragment, is "data: " + payload + blank line with no newline
\* character in the payload.
C25_FramesEscaped ==
    \A i \in 1..Len(emitted) :
        ~emitted[i].isNone => WellFramed(emitted[i].val)

\* the rows written since the requests were dispatched
WrittenRows == SubSeq(details, Len(details0) + 1, Len(details))

\* C26: with stream requests of different sessions running at the same
\* time, each consumer has yielded only fragments its own worker generated
\* from its own prompt, each worker's bot carries only its own session id
\* and prompt, every row written carries the prompt or the answer of the
\* session it is stored under, and the bot of the server process is as it
\* was constructed (PoolSpec).
C26_RequestsIsolated ==
    /\ bot = ParentBot
    /\ \A sid \in DOMAIN units :
          /\ units[sid].bot.session_id \in {"", sid}
          /\ units[sid].bot.user_input \in {<<>>, PromptOf(sid)}
          /\ \A i \in 1..Len(units[sid].yielded) :
                units[sid].yielded[i]
                   = Response(Frame(<<"re">> \o PromptOf(sid)))
          /\ \A i \in 1..Len(units[sid].output_queue) :
                units[sid].output_queue[i]
                   = Frame(<<"re">> \o PromptOf(sid))
    /\ \A i \in 1..Len(WrittenRows) :
          /\ WrittenRows[i].session_id \in DOMAIN units
          /\ WrittenRows[i].content =
                IF WrittenRows[i].role = "user"
                THEN PromptOf(WrittenRows[i].session_id)
                ELSE <<"re">> \o PromptOf(WrittenRows[i].session_id)

\* both workers ran at the same time, both consumers have yielded fragments
\* and the rows of both sessions are stored
C26_Witness ==
    /\ DOMAIN units = ValidIds
    /\ \A sid \in ValidIds :
          /\ units[sid].pc = "done"
          /\ Len(units[sid].yielded) = MaxFragments
          /\ \E i \in 1..Len(WrittenRows) :
                /\ WrittenRows[i].session_id = sid
                /\ WrittenRows[i].role = "assistant"
    /\ WrittenRows[1].session_id # WrittenRows[2].session_id
    /\ WrittenRows[1].role = "user" /\ WrittenRows[2].role = "user"

TypeOK ==
    /\ wstate \in {"none", "running", "exited", "killed", "terminated"}
    /\ Len(response_ids) <= MaxTokens
    /\ cpc \in {"idle", "check_alive", "check_empty", "get", "yield", "join",
                "finally", "done"}

====
